---- MODULE Spec2Model ----
(***************************************************************************)
(* ccxdebug: the mesh-quality analysis pipeline of                         *)
(* src/src/ccxdebug/quality_analyzer.py (analyze_mesh_quality and its      *)
(* three geometric helpers), as a state machine; further down, the        *)
(* parsing loop of convert_to_vtu (vtu_converter.py), replace_materials    *)
(* (material_processor.py) and the command line of cli.py.                 *)
(*                                                                         *)
(* Text is modelled as TLA+ strings and parsed character by character the  *)
(* way the Python string methods do it.  Coordinates are integers, so the  *)
(* floating-point expressions of the code are exact on them; where the     *)
(* code divides (centroid, plane distance) the model keeps the scale       *)
(* factor explicit (see compute_3d_jacobian and compute_warping).          *)
(***************************************************************************)
EXTENDS Integers, Sequences, FiniteSets, TLC

(***************************************************************************)
(* Bounds                                                                  *)
(***************************************************************************)
\* number of lines of the input file after its fixed prefix
MaxBody == 3

\* number of lines of the input file of replace_materials
MaxMatLines == 4

\* number of pieces an input_file argument is made of
MaxPieces == 2

(***************************************************************************)
(* Python string methods                                                   *)
(***************************************************************************)
Char(s, k) == SubSeq(s, k, k)

IsSpace(c) == c \in {" ", "\t"}

RECURSIVE lstrip(_)
lstrip(s) == IF s # "" /\ IsSpace(Head(s)) THEN lstrip(Tail(s)) ELSE s

RECURSIVE rstrip(_)
rstrip(s) ==
    IF s # "" /\ IsSpace(Char(s, Len(s)))
    THEN rstrip(SubSeq(s, 1, Len(s) - 1))
    ELSE s

\* str.strip()
strip(s) == rstrip(lstrip(s))

Lower == {"a", "b", "c", "d", "e", "f", "g", "h", "i", "j", "k", "l", "m",
          "n", "o", "p", "q", "r", "s", "t", "u", "v", "w", "x", "y", "z"}

UpperChar(c) ==
    IF c \notin Lower THEN c
    ELSE CASE c = "a" -> "A" [] c = "b" -> "B" [] c = "c" -> "C" [] c = "d" -> "D"
           [] c = "e" -> "E" [] c = "f" -> "F" [] c = "g" -> "G" [] c = "h" -> "H"
           [] c = "i" -> "I" [] c = "j" -> "J" [] c = "k" -> "K" [] c = "l" -> "L"
           [] c = "m" -> "M" [] c = "n" -> "N" [] c = "o" -> "O" [] c = "p" -> "P"
           [] c = "q" -> "Q" [] c = "r" -> "R" [] c = "s" -> "S" [] c = "t" -> "T"
           [] c = "u" -> "U" [] c = "v" -> "V" [] c = "w" -> "W" [] c = "x" -> "X"
           [] c = "y" -> "Y" [] c = "z" -> "Z"

\* str.upper()
RECURSIVE upper(_)
upper(s) == IF s = "" THEN "" ELSE UpperChar(Head(s)) \o upper(Tail(s))

\* str.startswith(p)
startswith(s, p) == Len(s) >= Len(p) /\ SubSeq(s, 1, Len(p)) = p

\* str.find(sub), 1-based; 0 when sub does not occur  (sub in s  <=>  find # 0)
find(s, sub) ==
    LET hits == {k \in 1..(Len(s) - Len(sub) + 1) :
                    SubSeq(s, k, k + Len(sub) - 1) = sub}
    IN  IF hits = {} THEN 0 ELSE CHOOSE k \in hits : \A j \in hits : k <= j

contains(s, sub) == find(s, sub) # 0

\* str.split(sep): the sequence of pieces, never empty
RECURSIVE split(_, _)
split(s, sep) ==
    LET k == find(s, sep)
    IN  IF k = 0
        THEN <<s>>
        ELSE <<SubSeq(s, 1, k - 1)>> \o split(SubSeq(s, k + Len(sep), Len(s)), sep)

\* str.replace(old, new): every non-overlapping occurrence, left to right
RECURSIVE replace(_, _, _)
replace(s, old, new) ==
    LET k == find(s, old)
    IN  IF k = 0
        THEN s
        ELSE SubSeq(s, 1, k - 1) \o new
             \o replace(SubSeq(s, k + Len(old), Len(s)), old, new)

Digits == {"0", "1", "2", "3", "4", "5", "6", "7", "8", "9"}

\* str.isdigit()
isdigit(s) == s # "" /\ \A k \in 1..Len(s) : Char(s, k) \in Digits

DigitVal(c) ==
    CASE c = "0" -> 0 [] c = "1" -> 1 [] c = "2" -> 2 [] c = "3" -> 3
      [] c = "4" -> 4 [] c = "5" -> 5 [] c = "6" -> 6 [] c = "7" -> 7
      [] c = "8" -> 8 [] c = "9" -> 9

RECURSIVE DigitsVal(_)
DigitsVal(s) ==
    IF s = "" THEN 0
    ELSE 10 * DigitsVal(SubSeq(s, 1, Len(s) - 1)) + DigitVal(Char(s, Len(s)))

\* int(s) succeeds: an optional sign followed by decimal digits
\* (surrounding blanks were already stripped by the callers)
IsIntLiteral(s) ==
    IF s # "" /\ Head(s) \in {"+", "-"} THEN isdigit(Tail(s)) ELSE isdigit(s)

\* int(s), for s with IsIntLiteral(s)
int(s) ==
    IF Head(s) = "-" THEN 0 - DigitsVal(Tail(s))
    ELSE IF Head(s) = "+" THEN DigitsVal(Tail(s))
    ELSE DigitsVal(s)

\* float(s) succeeds.  Only the integer-literal part of Python's float
\* grammar is modelled; every coordinate field of the input lines below is
\* either an integer literal or not a number at all.
IsFloatLiteral(s) == IsIntLiteral(s)

float(s) == int(s)

(***************************************************************************)
(* Vectors.  A point is a triple of integers.                              *)
(***************************************************************************)
vsub(a, b) == <<a[1] - b[1], a[2] - b[2], a[3] - b[3]>>

\* np.cross
cross(a, b) ==
    << a[2] * b[3] - a[3] * b[2],
       a[3] * b[1] - a[1] * b[3],
       a[1] * b[2] - a[2] * b[1] >>

\* np.dot
dot(a, b) == a[1] * b[1] + a[2] * b[2] + a[3] * b[3]

\* np.linalg.norm squared
normsq(a) == dot(a, a)

Abs(x) == IF x < 0 THEN 0 - x ELSE x

SeqMax(q) == CHOOSE m \in {q[k] : k \in 1..Len(q)} : \A k \in 1..Len(q) : q[k] <= m

SeqMin(q) == CHOOSE m \in {q[k] : k \in 1..Len(q)} : \A k \in 1..Len(q) : m <= q[k]

(***************************************************************************)
(* compute_warping, lines 5-17.                                            *)
(* The result is a distance num / sqrt(den2), or +inf.  The code divides   *)
(* the normal by its norm before taking the dot products; the model keeps  *)
(* the dot products with the unnormalised normal in num and the squared    *)
(* norm in den2, which is the same number.                                 *)
(***************************************************************************)
Inf == [inf |-> TRUE, num |-> 0, den2 |-> 1]

Dist(n, d2) == [inf |-> FALSE, num |-> n, den2 |-> IF n = 0 THEN 1 ELSE d2]

compute_warping(points) ==
    IF Len(points) < 4 THEN Dist(0, 1)
    ELSE LET p0 == points[1]
             v1 == vsub(points[2], p0)
             v2 == vsub(points[3], p0)
             normal == cross(v1, v2)
         IN  IF normsq(normal) = 0 THEN Inf
             ELSE Dist(SeqMax([k \in 1..Len(points) |->
                                  Abs(dot(vsub(points[k], p0), normal))]),
                       normsq(normal))

(***************************************************************************)
(* is_butterfly, lines 19-30.                                              *)
(* triangle_area is 0.5 * sqrt(n) for the integer n = |cross|^2 that the   *)
(* model carries.  total_area = 0.5 * (sqrt(n1) + sqrt(n2)) is never       *)
(* negative, and it is within 1e-10 of 0 exactly when n1 = n2 = 0, since   *)
(* a non-zero integer n contributes at least 0.5.                          *)
(***************************************************************************)
triangle_area(p1, p2, p3) == normsq(cross(vsub(p2, p1), vsub(p3, p1)))

\* total_area < 0
AreaSumNegative(n1, n2) == FALSE

\* np.isclose(total_area, 0, atol=1e-10)
AreaSumCloseToZero(n1, n2) == n1 = 0 /\ n2 = 0

is_butterfly(points) ==
    IF Len(points) # 4 THEN FALSE
    ELSE LET area1 == triangle_area(points[1], points[2], points[3])
             area2 == triangle_area(points[3], points[4], points[1])
         IN  AreaSumNegative(area1, area2) \/ AreaSumCloseToZero(area1, area2)

(***************************************************************************)
(* compute_3d_jacobian, lines 32-55.                                       *)
(* The centroid is the sum of the 8 points divided by 8; the model keeps   *)
(* 8 * centroid, so that v8 is 8 times the value the code returns (the     *)
(* triple product is linear in v3).  Signs and zero are those of the code. *)
(***************************************************************************)
NaN == [nan |-> TRUE, v8 |-> 0]

TetIndices == << <<0, 1, 3>>, <<1, 2, 3>>, <<4, 5, 7>>, <<5, 6, 7>> >>

RECURSIVE VSum(_)
VSum(points) ==
    IF points = <<>> THEN <<0, 0, 0>>
    ELSE LET r == VSum(Tail(points))
         IN  <<points[1][1] + r[1], points[1][2] + r[2], points[1][3] + r[3]>>

\* 8 * det for one tetrahedron, lines 46-53
TetDet8(points, tet) ==
    LET p0 == points[tet[1] + 1]
        p1 == points[tet[2] + 1]
        p2 == points[tet[3] + 1]
        c8 == VSum(points)
        v1 == vsub(p1, p0)
        v2 == vsub(p2, p0)
        v3 == <<c8[1] - 8 * p0[1], c8[2] - 8 * p0[2], c8[3] - 8 * p0[3]>>
    IN  dot(v1, cross(v2, v3))

compute_3d_jacobian(points) ==
    IF Len(points) # 8 THEN NaN
    ELSE [nan |-> FALSE,
          v8 |-> SeqMin([t \in 1..Len(TetIndices) |-> TetDet8(points, TetIndices[t])])]

(***************************************************************************)
(* Input                                                                   *)
(***************************************************************************)
\* a *NODE block with the 8 corners of the unit cube, ids 1..8, in standard
\* hexahedron order (bottom face, then top face)
CubeBlock ==
    << "*NODE",
       "1, 0, 0, 0", "2, 1, 0, 0", "3, 1, 1, 0", "4, 0, 1, 0",
       "5, 0, 0, 1", "6, 1, 0, 1", "7, 1, 1, 1", "8, 0, 1, 1" >>

\* a file that lists an element before the nodes it refers to
ElementsFirst == << "*ELEMENT, TYPE=S8R", "2, 5, 6, 7, 8" >> \o CubeBlock

\* a file whose first element block has a type the analysis does not support
UnsupportedType ==
    CubeBlock \o << "*ELEMENT, TYPE=C3D4", "1, 1, 2, 3, 4, 5, 6, 7, 8" >>

\* a file with an element line whose first field is not a number
NoElementId == CubeBlock \o << "*ELEMENT, TYPE=S8R", "a, 1, 2, 3, 4" >>

\* the files given to both convert_to_vtu and analyze_mesh_quality start
\* with one of these
ConvFiles == { <<>>, NoElementId }

\* the fixed prefixes an input file starts with
Prefixes == { <<>>, CubeBlock, ElementsFirst, UnsupportedType }

IsPrefix(p, q) == Len(p) <= Len(q) /\ SubSeq(q, 1, Len(p)) = p

\* the lines a file continues with, in any order and with repetition
LineSet ==
    { "  ",                        \* blank after strip
      "** mesh",                   \* comment
      "*NODE",
      "*ELEMENT, TYPE=C3D8",
      "*element, type=s8r",
      "*ELEMENT, ELSET=A",         \* no TYPE= key
      "*ELEMENT, TYPE=,ELSET=A",   \* TYPE= key with an empty value
      "*STEP",
      "9, 2, 2, 2",                \* node 9 / element 9 with 3 node ids
      "9, x, 2, 2",                \* node line with a non-numeric coordinate
      "1, 1, 2, 3, 4, 5, 6, 7, 8", \* element 1 on the 8 cube corners
      "2, 5, 6, 7, 8",             \* element 2 on the top face
      "5, 1, 9, 9, 1" }            \* element 5, referring to node 9

(***************************************************************************)
(* State                                                                   *)
(***************************************************************************)
VARIABLES
    lines,                 \* the lines of the input file known so far
    nread,                 \* how many of them the for loop has consumed
    nodes,                 \* list of [x, y, z]
    node_ids,              \* dict: node id -> 0-based index into nodes
    elements,              \* list of (elem_id, elem_indices)
    element_types,         \* list of type strings, parallel to elements
    in_node,
    in_element,
    current_element_type,
    vtk_cell_types,        \* list of VTK cell type codes
    cells,                 \* flat connectivity list: count, indices, count, ...
    valid_elements,        \* list of (elem_id, elem_indices) kept by the filter
    valid_element_types,   \* list of type strings, parallel to valid_elements
    aspect_ratio,          \* per-cell arrays returned by the quality library
    skew,
    jacobian,
    areas_volumes,
    warping,               \* per-cell lists of the custom metrics
    butterflies,
    jacobian_3d,
    problematic_elements,  \* list of (elem_id, type, issues)
    vtu_file,              \* content saved to output_vtu, or NotWritten
    csv_file,              \* rows written to output_csv, or NotWritten
    pc,                    \* position in analyze_mesh_quality
    raised,                \* message of the ValueError raised, or NoError
    arg_points,            \* argument of a direct call of a geometric helper
    fn,                    \* the helper called, or NoCall
    ret                    \* what it returned

\* replace_materials (material_processor.py)
VARIABLES
    mat_lines,             \* the lines of the input file
    mat_i,                 \* how many of them the for loop has consumed
    output_lines,
    in_material,
    in_elastic,
    material_name,
    mat_out                \* the lines written to output_path, or NotWritten

\* the parsing loop of convert_to_vtu (vtu_converter.py); its locals have
\* the names of analyze_mesh_quality's, prefixed here with conv_
VARIABLES
    conv_nread,
    conv_nodes,
    conv_node_ids,
    conv_elements,         \* list of elem_indices
    conv_element_types,
    conv_in_node,
    conv_in_element,
    conv_current_element_type,
    conv_pc,
    conv_raised

\* main (cli.py)
VARIABLES
    command,               \* args.command
    input_file,            \* args.input_file
    called                 \* the function called and its arguments

parseVars == <<lines, nread, nodes, node_ids, elements, element_types,
               in_node, in_element, current_element_type>>

filterVars == <<vtk_cell_types, cells, valid_elements, valid_element_types>>

oracleVars == <<aspect_ratio, skew, jacobian, areas_volumes>>

customVars == <<warping, butterflies, jacobian_3d>>

outVars == <<problematic_elements, vtu_file, csv_file>>

vars == <<lines, nread, nodes, node_ids, elements, element_types,
          in_node, in_element, current_element_type,
          vtk_cell_types, cells, valid_elements, valid_element_types,
          aspect_ratio, skew, jacobian, areas_volumes,
          warping, butterflies, jacobian_3d,
          problematic_elements, vtu_file, csv_file, pc, raised,
          arg_points, fn, ret,
          mat_lines, mat_i, output_lines, in_material, in_elastic,
          material_name, mat_out,
          conv_nread, conv_nodes, conv_node_ids, conv_elements,
          conv_element_types, conv_in_node, conv_in_element,
          conv_current_element_type, conv_pc, conv_raised,
          command, input_file, called>>

geomVars == <<arg_points, fn, ret>>

matVars == <<mat_lines, mat_i, output_lines, in_material, in_elastic,
             material_name, mat_out>>

convVars == <<conv_nread, conv_nodes, conv_node_ids, conv_elements,
              conv_element_types, conv_in_node, conv_in_element,
              conv_current_element_type, conv_pc, conv_raised>>

cliVars == <<command, input_file, called>>

\* the state of the other entry points of the package
toolVars == <<matVars, convVars, cliVars>>

NoCall == "NoCall"

\* Python's None for current_element_type.  Every type read from a header
\* is upper-cased, so it never equals this mixed-case string.
None == "None"

NoError == "NoError"

\* an output file that was never opened for writing
NotWritten == [written |-> FALSE]

\* mutant: the test `is not None` in place of the truth value
Truthy_NotNone(t) == t # None

\* truth value of a str-or-None
Truthy(t) == t # None /\ t # ""

\* the locals of analyze_mesh_quality at line 66
Fresh ==
    /\ nread = 0
    /\ nodes = <<>>
    /\ node_ids = <<>>
    /\ elements = <<>>
    /\ element_types = <<>>
    /\ in_node = FALSE
    /\ in_element = FALSE
    /\ current_element_type = None
    /\ vtk_cell_types = <<>>
    /\ cells = <<>>
    /\ valid_elements = <<>>
    /\ valid_element_types = <<>>
    /\ aspect_ratio = <<>>
    /\ skew = <<>>
    /\ jacobian = <<>>
    /\ areas_volumes = <<>>
    /\ warping = <<>>
    /\ butterflies = <<>>
    /\ jacobian_3d = <<>>
    /\ problematic_elements = <<>>
    /\ vtu_file = NotWritten
    /\ csv_file = NotWritten
    /\ pc = "parse"
    /\ raised = NoError

\* the locals of replace_materials at line 12, for the input file ls
MatFresh(ls) ==
    /\ mat_lines = ls
    /\ mat_i = 0
    /\ output_lines = <<>>
    /\ in_material = FALSE
    /\ in_elastic = FALSE
    /\ material_name = None
    /\ mat_out = NotWritten

\* the locals of convert_to_vtu at line 13
ConvFresh ==
    /\ conv_nread = 0
    /\ conv_nodes = <<>>
    /\ conv_node_ids = <<>>
    /\ conv_elements = <<>>
    /\ conv_element_types = <<>>
    /\ conv_in_node = FALSE
    /\ conv_in_element = FALSE
    /\ conv_current_element_type = None
    /\ conv_pc = "parse"
    /\ conv_raised = NoError

\* no command line
CliIdle ==
    /\ command = NoCall
    /\ input_file = ""
    /\ called = [fn |-> NoCall]

GeomIdle ==
    /\ arg_points = <<>>
    /\ fn = NoCall
    /\ ret = NoCall

Init ==
    /\ lines \in Prefixes
    /\ Fresh
    /\ GeomIdle
    /\ MatFresh(<<>>)
    /\ ConvFresh
    /\ CliIdle

(***************************************************************************)
(* The parsing loop, lines 70-119                                          *)
(***************************************************************************)
\* the number of lines after the prefix the file started with (no line of
\* LineSet is a cube node line, so the prefix is recognisable)
BodyLen ==
    LET ps == {p \in Prefixes : IsPrefix(p, lines)}
        p == CHOOSE p \in ps : \A r \in ps : Len(r) <= Len(p)
    IN  Len(lines) - Len(p)

\* `for line in lines`: raw is the next line of the file.  Past the lines
\* known so far the file continues with any line of LineSet.
NextLine(raw) ==
    /\ pc = "parse"
    /\ IF nread < Len(lines)
       THEN raw = lines[nread + 1] /\ lines' = lines
       ELSE BodyLen < MaxBody /\ raw \in LineSet /\ lines' = Append(lines, raw)
    /\ nread' = nread + 1

\* mutant: line 72 without its test for the comment marker
IsSkipped_BlankOnly(line) == line = ""

\* line 72
IsSkipped(line) == line = "" \/ startswith(line, "**")
\* line 75
IsNodeHeader(line) == startswith(upper(line), "*NODE")
\* line 80
IsElementHeader(line) == startswith(upper(line), "*ELEMENT")
\* line 92
IsKeyword(line) == startswith(upper(line), "*")

\* which branch of the loop body a stripped line takes, lines 72-98
Branch(line) ==
    IF IsSkipped(line) THEN "skip"
    ELSE IF IsNodeHeader(line) THEN "node_header"
    ELSE IF IsElementHeader(line) THEN "element_header"
    ELSE IF IsKeyword(line) THEN "keyword"
    ELSE "data"

\* line 85: line.upper().split('TYPE=')[1].split(',')[0].strip(); the
\* result is IndexError when one of the two subscripts is out of range
IndexError == [ok |-> FALSE, val |-> ""]

TypeOf(line) ==
    LET a == split(upper(line), "TYPE=")
    IN  IF Len(a) < 2 THEN IndexError
        ELSE LET b == split(a[2], ",")
             IN  IF Len(b) < 1 THEN IndexError
                 ELSE [ok |-> TRUE, val |-> strip(b[1])]

\* lines 83-89: what an *ELEMENT header does to current_element_type;
\* ok = FALSE is the ValueError of line 87
HeaderType(line) ==
    IF contains(upper(line), "TYPE=")
    THEN TypeOf(line)
    ELSE [ok |-> TRUE, val |-> "C3D8"]

\* lines 99-103: len(parts) >= 4 and int() and the three float() succeed
NodeLineParses(line) ==
    LET parts == split(line, ",")
    IN  /\ Len(parts) >= 4
        /\ IsIntLiteral(strip(parts[1]))
        /\ \A k \in 2..4 : IsFloatLiteral(strip(parts[k]))

\* line 102
NodeId(line) == int(strip(split(line, ",")[1]))

\* line 103
NodeCoords(line) ==
    LET parts == split(line, ",") IN [k \in 1..3 |-> float(strip(parts[k + 1]))]

\* line 113: the node ids of an element line
RECURSIVE ElemNodesOf(_)
ElemNodesOf(parts) ==
    IF parts = <<>> THEN <<>>
    ELSE LET n == strip(Head(parts))
         IN  (IF n # "" /\ isdigit(n) THEN <<int(n)>> ELSE <<>>)
             \o ElemNodesOf(Tail(parts))

ElemNodes(line) == ElemNodesOf(Tail(split(line, ",")))

\* line 112 does not raise ValueError
ElemIdParses(line) == IsIntLiteral(strip(split(line, ",")[1]))

ElemId(line) == int(strip(split(line, ",")[1]))

\* every line the loop can meet
Candidates ==
    LineSet \cup UNION { {p[k] : k \in 1..Len(p)} : p \in Prefixes \cup ConvFiles }

\* The text-only part of the loop body, evaluated once per candidate line:
\* line 71's strip, the branch taken, and what the branch parses
Parsed ==
    [raw \in Candidates |->
        LET line == strip(raw)
            br == Branch(line)
        IN  [branch |-> br,
             type |-> IF br = "element_header" THEN HeaderType(line) ELSE IndexError,
             node_ok |-> br = "data" /\ NodeLineParses(line),
             node_id |-> IF br = "data" /\ NodeLineParses(line)
                         THEN NodeId(line) ELSE 0,
             coords |-> IF br = "data" /\ NodeLineParses(line)
                        THEN NodeCoords(line) ELSE <<>>,
             elem_ok |-> br = "data" /\ ElemIdParses(line),
             elem_id |-> IF br = "data" /\ ElemIdParses(line)
                         THEN ElemId(line) ELSE 0,
             elem_nodes |-> IF br = "data" THEN ElemNodes(line) ELSE <<>>]]

\* lines 72-73
SkipLine ==
    \E raw \in Candidates :
        /\ NextLine(raw)
        /\ Parsed[raw].branch = "skip"
        /\ UNCHANGED <<nodes, node_ids, elements, element_types,
                       in_node, in_element, current_element_type, pc, raised,
                       filterVars, oracleVars, customVars, outVars>>
        /\ UNCHANGED <<geomVars, toolVars>>

\* lines 75-78
NodeHeader ==
    \E raw \in Candidates :
        /\ NextLine(raw)
        /\ Parsed[raw].branch = "node_header"
        /\ in_node' = TRUE
        /\ in_element' = FALSE
        /\ UNCHANGED <<nodes, node_ids, elements, element_types,
                       current_element_type, pc, raised,
                       filterVars, oracleVars, customVars, outVars>>
        /\ UNCHANGED <<geomVars, toolVars>>

\* lines 80-90
ElementHeader ==
    \E raw \in Candidates :
        /\ NextLine(raw)
        /\ Parsed[raw].branch = "element_header"
        /\ in_node' = FALSE
        /\ in_element' = TRUE
        /\ IF Parsed[raw].type.ok
           THEN /\ current_element_type' = Parsed[raw].type.val
                /\ UNCHANGED <<pc, raised>>
           ELSE /\ raised' = "Invalid *ELEMENT format: TYPE= specifier malformed"
                /\ pc' = "error"
                /\ UNCHANGED current_element_type
        /\ UNCHANGED <<nodes, node_ids, elements, element_types,
                       filterVars, oracleVars, customVars, outVars>>
        /\ UNCHANGED <<geomVars, toolVars>>

\* lines 92-96
OtherKeyword ==
    \E raw \in Candidates :
        /\ NextLine(raw)
        /\ Parsed[raw].branch = "keyword"
        /\ in_node' = FALSE
        /\ in_element' = FALSE
        /\ current_element_type' = None
        /\ UNCHANGED <<nodes, node_ids, elements, element_types, pc, raised,
                       filterVars, oracleVars, customVars, outVars>>
        /\ UNCHANGED <<geomVars, toolVars>>

\* dict lookup and item assignment; a dict is a sequence of <<key, value>>
\* with distinct keys, in insertion order
HasKey(d, key) == \E k \in 1..Len(d) : d[k][1] = key

Lookup(d, key) == d[CHOOSE k \in 1..Len(d) : d[k][1] = key][2]

SetItem(d, key, val) ==
    IF HasKey(d, key)
    THEN [k \in 1..Len(d) |-> IF d[k][1] = key THEN <<key, val>> ELSE d[k]]
    ELSE Append(d, <<key, val>>)

\* line 115 does not raise KeyError
Resolves(ns) == \A k \in 1..Len(ns) : HasKey(node_ids, ns[k])

\* mutant: the indices are stored 1-based
ElemIndices_OneBased(ns) == [k \in 1..Len(ns) |-> Lookup(node_ids, ns[k]) + 1]

\* line 115
ElemIndices(ns) == [k \in 1..Len(ns) |-> Lookup(node_ids, ns[k])]

\* mutant: the node ids that do not resolve are dropped and the element is
\* appended with the rest
NewElements_KeepResolved(elem_id, ns) ==
    LET known == SelectSeq(ns, LAMBDA n : HasKey(node_ids, n))
    IN  IF known # <<>> THEN << <<elem_id, ElemIndices(known)>> >> ELSE <<>>

\* lines 114-116: what an element line with id elem_id and node ids ns
\* appends to elements: one entry, or nothing when ns is empty (line 114)
\* or the lookup raises KeyError (lines 115, 118)
NewElements(elem_id, ns) ==
    IF ns # <<>> /\ Resolves(ns)
    THEN << <<elem_id, ElemIndices(ns)>> >>
    ELSE <<>>

\* mutant: len(nodes) in place of len(nodes) - 1
LastIndex_Len(q) == Len(q)

\* line 105: len(nodes) - 1, for the list as it is after the append
LastIndex(q) == Len(q) - 1

\* lines 98-107
NodeData ==
    \E raw \in Candidates :
        /\ NextLine(raw)
        /\ Parsed[raw].branch = "data"
        /\ in_node
        /\ IF Parsed[raw].node_ok
           THEN /\ nodes' = Append(nodes, Parsed[raw].coords)
                /\ node_ids' = SetItem(node_ids, Parsed[raw].node_id, LastIndex(nodes'))
           ELSE UNCHANGED <<nodes, node_ids>>
        /\ UNCHANGED <<elements, element_types, in_node, in_element,
                       current_element_type, pc, raised,
                       filterVars, oracleVars, customVars, outVars>>
        /\ UNCHANGED <<geomVars, toolVars>>

\* lines 109-119
ElementData ==
    \E raw \in Candidates :
        /\ NextLine(raw)
        /\ Parsed[raw].branch = "data"
        /\ ~in_node
        /\ in_element /\ Truthy(current_element_type)
        /\ IF Parsed[raw].elem_ok
           THEN LET new == NewElements(Parsed[raw].elem_id, Parsed[raw].elem_nodes)
                IN  /\ elements' = elements \o new
                    /\ element_types' =
                          element_types \o [k \in 1..Len(new) |-> current_element_type]
           ELSE UNCHANGED <<elements, element_types>>
        /\ UNCHANGED <<nodes, node_ids, in_node, in_element,
                       current_element_type, pc, raised,
                       filterVars, oracleVars, customVars, outVars>>
        /\ UNCHANGED <<geomVars, toolVars>>

\* lines 98 and 109 both false: a data line outside a node block and
\* outside an element block with a type
IgnoredData ==
    \E raw \in Candidates :
        /\ NextLine(raw)
        /\ Parsed[raw].branch = "data"
        /\ ~in_node
        /\ ~(in_element /\ Truthy(current_element_type))
        /\ UNCHANGED <<nodes, node_ids, elements, element_types, in_node,
                       in_element, current_element_type, pc, raised,
                       filterVars, oracleVars, customVars, outVars>>
        /\ UNCHANGED <<geomVars, toolVars>>

\* mutant: line 121 tests `not nodes` only
EndOfFile_NodesOnly ==
    /\ pc = "parse"
    /\ nread = Len(lines)
    /\ IF nodes = <<>>
       THEN /\ raised' = "No valid nodes or elements found in .inp file"
            /\ pc' = "error"
       ELSE /\ pc' = "filter"
            /\ UNCHANGED raised
    /\ UNCHANGED <<parseVars, filterVars, oracleVars, customVars, outVars>>
    /\ UNCHANGED <<geomVars, toolVars>>

\* lines 121-122, reached when the loop has consumed the whole file
EndOfFile ==
    /\ pc = "parse"
    /\ nread = Len(lines)
    /\ IF nodes = <<>> \/ elements = <<>>
       THEN /\ raised' = "No valid nodes or elements found in .inp file"
            /\ pc' = "error"
       ELSE /\ pc' = "filter"
            /\ UNCHANGED raised
    /\ UNCHANGED <<parseVars, filterVars, oracleVars, customVars, outVars>>
    /\ UNCHANGED <<geomVars, toolVars>>

(***************************************************************************)
(* Shape filter, lines 124-146                                             *)
(***************************************************************************)
\* pv.CellType.HEXAHEDRON and pv.CellType.QUAD
HEXAHEDRON == 12
QUAD == 9

\* mutant: a C3D8 element converts whatever its number of node indices
CellTypeOf_AnyCount(elem_type, elem_nodes) ==
    IF upper(elem_type) = "C3D8" THEN HEXAHEDRON
    ELSE IF upper(elem_type) = "S8R" /\ Len(elem_nodes) >= 4 THEN QUAD
    ELSE 0

\* lines 130 and 136: the VTK cell an element converts to, 0 for none
CellTypeOf(elem_type, elem_nodes) ==
    IF upper(elem_type) = "C3D8" /\ Len(elem_nodes) = 8 THEN HEXAHEDRON
    ELSE IF upper(elem_type) = "S8R" /\ Len(elem_nodes) >= 4 THEN QUAD
    ELSE 0

Min(a, b) == IF a <= b THEN a ELSE b

\* zip(element_types, elements) stops at the shorter list
ZipLen == Min(Len(element_types), Len(elements))

\* mutant: the kept elements are collected last-first
RECURSIVE KeptUpTo_Reversed(_)
KeptUpTo_Reversed(k) ==
    IF k = 0 THEN <<>>
    ELSE (IF CellTypeOf(element_types[k], elements[k][2]) # 0 THEN <<k>> ELSE <<>>)
         \o KeptUpTo_Reversed(k - 1)

\* the positions of zip(element_types, elements) that the loop keeps, in order
RECURSIVE KeptUpTo(_)
KeptUpTo(k) ==
    IF k = 0 THEN <<>>
    ELSE KeptUpTo(k - 1) \o
         (IF CellTypeOf(element_types[k], elements[k][2]) # 0 THEN <<k>> ELSE <<>>)

Kept == KeptUpTo(ZipLen)

\* lines 132-133 and 138-139
CellOf(elem_type, elem_nodes) ==
    IF CellTypeOf(elem_type, elem_nodes) = HEXAHEDRON
    THEN <<8>> \o elem_nodes
    ELSE <<4>> \o SubSeq(elem_nodes, 1, 4)

RECURSIVE Flatten(_)
Flatten(q) == IF q = <<>> THEN <<>> ELSE Head(q) \o Flatten(Tail(q))

\* mutant: the grid is saved before line 145 tests `not cells`
FilterElements_SaveFirst ==
    /\ pc = "filter"
    /\ vtk_cell_types' =
          [j \in 1..Len(Kept) |->
              CellTypeOf(element_types[Kept[j]], elements[Kept[j]][2])]
    /\ cells' = Flatten([j \in 1..Len(Kept) |->
                            CellOf(element_types[Kept[j]], elements[Kept[j]][2])])
    /\ valid_elements' = [j \in 1..Len(Kept) |-> elements[Kept[j]]]
    /\ valid_element_types' = [j \in 1..Len(Kept) |-> element_types[Kept[j]]]
    /\ IF cells' = <<>>
       THEN /\ vtu_file' = [cells |-> <<>>, cell_types |-> <<>>, cell_data |-> <<>>]
            /\ raised' = "No valid elements converted to VTK types"
            /\ pc' = "error"
       ELSE /\ pc' = "oracle"
            /\ UNCHANGED <<raised, vtu_file>>
    /\ UNCHANGED <<parseVars, oracleVars, customVars,
                   problematic_elements, csv_file>>
    /\ UNCHANGED <<geomVars, toolVars>>

\* lines 124-146
FilterElements ==
    /\ pc = "filter"
    /\ vtk_cell_types' =
          [j \in 1..Len(Kept) |->
              CellTypeOf(element_types[Kept[j]], elements[Kept[j]][2])]
    /\ cells' = Flatten([j \in 1..Len(Kept) |->
                            CellOf(element_types[Kept[j]], elements[Kept[j]][2])])
    /\ valid_elements' = [j \in 1..Len(Kept) |-> elements[Kept[j]]]
    /\ valid_element_types' = [j \in 1..Len(Kept) |-> element_types[Kept[j]]]
    /\ IF cells' = <<>>
       THEN /\ raised' = "No valid elements converted to VTK types"
            /\ pc' = "error"
       ELSE /\ pc' = "oracle"
            /\ UNCHANGED raised
    /\ UNCHANGED <<parseVars, oracleVars, customVars, outVars>>
    /\ UNCHANGED <<geomVars, toolVars>>

(***************************************************************************)
(* The quality library, lines 148-158.  compute_cell_quality and           *)
(* compute_cell_sizes are external: a deterministic function of a cell's   *)
(* type and node coordinates whose values the model leaves open.           *)
(***************************************************************************)
\* line 177: the aspect-ratio threshold
AspectLimit == 20
\* line 179: the threshold 1e-6, in units of 1e-6
SizeLimit == 1

\* values the library may return for one cell: aspect ratios at and above
\* the threshold, sizes (in units of 1e-6) 0 and 1.0, scaled Jacobians 0
\* and 1
QualityValues ==
    [ar : {AspectLimit, AspectLimit + 1}, skew : {0}, jac : {0, 1},
     size : {0, 1000000}]

\* the geometry of cell j of the grid: its type and the coordinates of its
\* nodes
CellGeometry(j) ==
    LET ns == valid_elements[j][2]
        conn == IF vtk_cell_types[j] = QUAD THEN SubSeq(ns, 1, 4) ELSE ns
    IN  <<vtk_cell_types[j], [k \in 1..Len(conn) |-> nodes[conn[k] + 1]]>>

Geometries == {CellGeometry(j) : j \in 1..Len(valid_elements)}

QualityLibrary ==
    /\ pc = "oracle"
    /\ \E q \in [Geometries -> QualityValues] :
          /\ jacobian' = [j \in 1..Len(valid_elements) |-> q[CellGeometry(j)].jac]
          /\ aspect_ratio' = [j \in 1..Len(valid_elements) |-> q[CellGeometry(j)].ar]
          /\ skew' = [j \in 1..Len(valid_elements) |-> q[CellGeometry(j)].skew]
          /\ areas_volumes' = [j \in 1..Len(valid_elements) |-> q[CellGeometry(j)].size]
    /\ pc' = "custom"
    /\ UNCHANGED <<parseVars, filterVars, customVars, outVars, raised>>
    /\ UNCHANGED <<geomVars, toolVars>>

(***************************************************************************)
(* Custom metrics, lines 160-171                                           *)
(***************************************************************************)
\* points[idx] for a list of 0-based indices
PointsAt(idx) == [k \in 1..Len(idx) |-> nodes[idx[k] + 1]]

\* line 165
CellPoints(cell_id) ==
    LET elem_nodes == valid_elements[cell_id][2]
    IN  PointsAt(IF valid_element_types[cell_id] = "S8R"
                 THEN SubSeq(elem_nodes, 1, Min(4, Len(elem_nodes)))
                 ELSE elem_nodes)

\* line 168
ButterflyOf(cell_id) ==
    IF valid_element_types[cell_id] = "S8R"
    THEN is_butterfly(CellPoints(cell_id))
    ELSE FALSE

\* mutant: the hexahedron Jacobian is computed for C3D8 elements only
Jacobian3DOf_HexOnly(cell_id) ==
    IF valid_element_types[cell_id] = "C3D8"
    THEN compute_3d_jacobian(PointsAt(valid_elements[cell_id][2]))
    ELSE NaN

\* line 170
Jacobian3DOf(cell_id) ==
    LET elem_nodes == valid_elements[cell_id][2]
    IN  IF Len(elem_nodes) = 8 THEN compute_3d_jacobian(PointsAt(elem_nodes))
        ELSE NaN

CustomMetrics ==
    /\ pc = "custom"
    /\ warping' = [c \in 1..Len(valid_elements) |-> compute_warping(CellPoints(c))]
    /\ butterflies' = [c \in 1..Len(valid_elements) |-> ButterflyOf(c)]
    /\ jacobian_3d' = [c \in 1..Len(valid_elements) |-> Jacobian3DOf(c)]
    /\ pc' = "flag"
    /\ UNCHANGED <<parseVars, filterVars, oracleVars, outVars, raised>>
    /\ UNCHANGED <<geomVars, toolVars>>

(***************************************************************************)
(* Problem detection, lines 173-186                                        *)
(***************************************************************************)
\* an issue is the message text before the colon and the value formatted
\* after it
Issue(text, value) == <<text, value>>

\* mutant: >= in place of >
Rule1_AtLeast(i) == aspect_ratio[i] >= AspectLimit

\* line 177
Rule1(i) == aspect_ratio[i] > AspectLimit
\* line 179
Rule2(i) == areas_volumes[i] < SizeLimit
\* line 181
Rule3(i) == jacobian[i] <= 0
\* mutant: rule 4 without its test of the element type
Rule4_AnyType(i) == ~jacobian_3d[i].nan /\ jacobian_3d[i].v8 <= 0

\* line 183
Rule4(i) ==
    /\ valid_element_types[i] = "S8R"
    /\ ~jacobian_3d[i].nan
    /\ jacobian_3d[i].v8 <= 0

\* lines 176-184
IssuesOf(i) ==
    (IF Rule1(i) THEN <<Issue("High aspect ratio", aspect_ratio[i])>> ELSE <<>>)
    \o (IF Rule2(i) THEN <<Issue("Near-zero area/volume", areas_volumes[i])>> ELSE <<>>)
    \o (IF Rule3(i) THEN <<Issue("Nonpositive Jacobian", jacobian[i])>> ELSE <<>>)
    \o (IF Rule4(i) THEN <<Issue("Nonpositive 3D Jacobian", jacobian_3d[i])>> ELSE <<>>)

\* lines 174-186
RECURSIVE ProblemsUpTo(_)
ProblemsUpTo(i) ==
    IF i = 0 THEN <<>>
    ELSE ProblemsUpTo(i - 1) \o
         (IF IssuesOf(i) # <<>>
          THEN << <<valid_elements[i][1], valid_element_types[i], IssuesOf(i)>> >>
          ELSE <<>>)

FlagProblems ==
    /\ pc = "flag"
    /\ problematic_elements' = ProblemsUpTo(Len(valid_elements))
    /\ pc' = "save_vtu"
    /\ UNCHANGED <<parseVars, filterVars, oracleVars, customVars,
                   vtu_file, csv_file, raised>>
    /\ UNCHANGED <<geomVars, toolVars>>

(***************************************************************************)
(* Output, lines 188-217                                                   *)
(***************************************************************************)
\* lines 189-197: the cell data attached to the grid
CellData ==
    [Element_ID |-> [j \in 1..Len(valid_elements) |-> valid_elements[j][1]],
     Element_Type |-> [j \in 1..Len(valid_element_types) |->
                          IF upper(valid_element_types[j]) = "C3D8" THEN 1 ELSE 0],
     Aspect_Ratio |-> aspect_ratio,
     Skew |-> skew,
     Jacobian |-> jacobian,
     Jacobian_3D |-> jacobian_3d,
     Warping |-> warping,
     Area_Volume |-> areas_volumes,
     Butterfly |-> [j \in 1..Len(butterflies) |-> IF butterflies[j] THEN 1 ELSE 0]]

\* lines 188-200
SaveVTU ==
    /\ pc = "save_vtu"
    /\ vtu_file' = [cells |-> cells, cell_types |-> vtk_cell_types,
                    cell_data |-> CellData]
    /\ pc' = "save_csv"
    /\ UNCHANGED <<parseVars, filterVars, oracleVars, customVars,
                   problematic_elements, csv_file, raised>>
    /\ UNCHANGED <<geomVars, toolVars>>

\* lines 207-217
CsvRow(i) ==
    <<valid_elements[i][1], valid_element_types[i], aspect_ratio[i], skew[i],
      jacobian[i], jacobian_3d[i], warping[i], areas_volumes[i], butterflies[i]>>

\* lines 203-217; the console summary that follows changes no state
SaveCSV ==
    /\ pc = "save_csv"
    /\ csv_file' = [header |-> <<"Element_ID", "Type", "Aspect_Ratio", "Skew",
                                 "Jacobian", "Jacobian_3D", "Warping",
                                 "Area_Volume", "Butterfly">>,
                    rows |-> [i \in 1..Len(valid_elements) |-> CsvRow(i)]]
    /\ pc' = "done"
    /\ UNCHANGED <<parseVars, filterVars, oracleVars, customVars,
                   problematic_elements, vtu_file, raised>>
    /\ UNCHANGED <<geomVars, toolVars>>

Next ==
    \/ SkipLine
    \/ NodeHeader
    \/ ElementHeader
    \/ OtherKeyword
    \/ NodeData
    \/ ElementData
    \/ IgnoredData
    \/ EndOfFile
    \/ FilterElements
    \/ QualityLibrary
    \/ CustomMetrics
    \/ FlagProblems
    \/ SaveVTU
    \/ SaveCSV

Spec == Init /\ [][Next]_vars

(***************************************************************************)
(* Reference reading of the input, used by the properties below: the       *)
(* blocks of the file and what their data lines declare, read off the      *)
(* text of `lines` alone.                                                  *)
(***************************************************************************)
Range(q) == {q[k] : k \in 1..Len(q)}

ScanStart ==
    [blk |-> "none", typed |-> FALSE, other |-> FALSE, ids |-> {}, refs |-> {},
     nNode |-> 0, nElem |-> 0, nElemOk |-> 0]

\* After the first k lines: the block the file is in, whether its *ELEMENT
\* header gave a non-empty type, whether a keyword other than *NODE and
\* *ELEMENT occurred, the node ids defined and referenced so far, the number
\* of well-formed node lines (nNode), of well-formed element lines (nElem),
\* and of those among the latter that lie in a block with a non-empty type
\* and refer only to node ids defined before them (nElemOk).
RECURSIVE Scan(_)
Scan(k) ==
    IF k = 0 THEN ScanStart
    ELSE LET s == Scan(k - 1)
             P == Parsed[lines[k]]
         IN  CASE P.branch = "skip" -> s
               [] P.branch = "node_header" -> [s EXCEPT !.blk = "node"]
               [] P.branch = "element_header" ->
                     [s EXCEPT !.blk = "element", !.typed = (P.type.val # "")]
               [] P.branch = "keyword" ->
                     [s EXCEPT !.blk = "none", !.typed = FALSE, !.other = TRUE]
               [] P.branch = "data" ->
                     IF s.blk = "node" /\ P.node_ok
                     THEN [s EXCEPT !.ids = @ \cup {P.node_id}, !.nNode = @ + 1]
                     ELSE IF s.blk = "element" /\ P.elem_ok /\ P.elem_nodes # <<>>
                     THEN [s EXCEPT !.refs = @ \cup Range(P.elem_nodes),
                                    !.nElem = @ + 1,
                                    !.nElemOk = IF s.typed /\ Range(P.elem_nodes) \subseteq s.ids
                                                THEN @ + 1 ELSE @]
                     ELSE s

\* the shape filter as the data model states it
PassesShapeFilter(type, indices) ==
    \/ type = "C3D8" /\ Len(indices) = 8
    \/ type = "S8R" /\ Len(indices) >= 4

RECURSIVE PassingUpTo(_)
PassingUpTo(k) ==
    IF k = 0 THEN <<>>
    ELSE PassingUpTo(k - 1) \o
         (IF PassesShapeFilter(element_types[k], elements[k][2])
          THEN << <<elements[k][1], element_types[k]>> >> ELSE <<>>)

\* (id, type) of the parsed elements that pass the filter, in order
Passing == PassingUpTo(Len(elements))

IdAndType(rows) == [j \in 1..Len(rows) |-> <<rows[j][1], rows[j][2]>>]

(***************************************************************************)
(* C1: when the analysis completes, the CSV rows and the VTU cells are      *)
(* exactly the parsed elements that pass the shape filter (C3D8 with 8     *)
(* node indices, S8R with at least 4), one record each, and every problem  *)
(* entry belongs to such an element.                                       *)
(***************************************************************************)
C1_RecordsAreFilteredElements ==
    pc = "done" =>
        /\ Len(csv_file.rows) = Len(Passing)
        /\ Len(vtu_file.cell_types) = Len(Passing)
        /\ IdAndType(csv_file.rows) = Passing
        /\ vtu_file.cell_data.Element_ID = [j \in 1..Len(Passing) |-> Passing[j][1]]
        /\ \A j \in 1..Len(problematic_elements) :
              <<problematic_elements[j][1], problematic_elements[j][2]>> \in Range(Passing)

C1_Witness ==
    /\ pc = "done"
    /\ Len(csv_file.rows) >= 1
    /\ \E k \in 1..Len(elements) : ~PassesShapeFilter(element_types[k], elements[k][2])

(***************************************************************************)
(* C2: the problem entries are exactly the records for which at least one  *)
(* of the four threshold rules holds.                                      *)
(***************************************************************************)
\* the four rules, read on a CSV row
RowViolates(r) ==
    \/ r[3] > 20
    \/ r[8] < SizeLimit
    \/ r[5] <= 0
    \/ r[2] = "S8R" /\ ~r[6].nan /\ r[6].v8 <= 0

RECURSIVE ViolatingRows(_)
ViolatingRows(rows) ==
    IF rows = <<>> THEN <<>>
    ELSE (IF RowViolates(Head(rows)) THEN << <<Head(rows)[1], Head(rows)[2]>> >> ELSE <<>>)
         \o ViolatingRows(Tail(rows))

C2_FlaggedIffRuleHolds ==
    pc = "done" =>
        [j \in 1..Len(problematic_elements) |->
            <<problematic_elements[j][1], problematic_elements[j][2]>>]
        = ViolatingRows(csv_file.rows)

C2_Witness ==
    /\ pc = "done"
    /\ \E i \in 1..Len(csv_file.rows) : RowViolates(csv_file.rows[i])
    /\ \E i \in 1..Len(csv_file.rows) : ~RowViolates(csv_file.rows[i])

(***************************************************************************)
(* C3: rule 4.                                                             *)
(***************************************************************************)
HasIssue(entry, text) == \E m \in 1..Len(entry[3]) : entry[3][m][1] = text

EmptyTypeHeaders ==
    {raw \in Candidates :
        /\ Parsed[raw].branch = "element_header"
        /\ contains(upper(raw), "TYPE=")
        /\ Parsed[raw].type.val = ""}

NoTypeHeaders ==
    {raw \in Candidates :
        /\ Parsed[raw].branch = "element_header"
        /\ ~contains(upper(raw), "TYPE=")}

\* C5 as claimed: once a header with an empty TYPE= value has been read,
\* the run has failed with the "TYPE= specifier malformed" error and no
\* later line was read; right after a header without TYPE= the element
\* type is C3D8.
C5_EmptyTypeIsFormatError ==
    /\ \A k \in 1..nread :
          lines[k] \in EmptyTypeHeaders =>
             /\ pc = "error"
             /\ raised = "Invalid *ELEMENT format: TYPE= specifier malformed"
             /\ nread = k
    /\ (pc = "parse" /\ nread >= 1 /\ lines[nread] \in NoTypeHeaders) =>
          current_element_type = "C3D8"

(***************************************************************************)
(* C8: the unit cube, end to end.                                          *)
(***************************************************************************)
CubeFile == CubeBlock \o << "*ELEMENT, TYPE=C3D8", "1, 1, 2, 3, 4, 5, 6, 7, 8" >>

\* C8 as claimed: for the cube file, with the library returning a positive
\* scaled Jacobian, an aspect ratio of at most 20 and volume 1, there is
\* exactly one record and CSV row, of type C3D8, with a finite hexahedron
\* Jacobian and warping 0, and no problem entry.
C8_UnitCubeEndToEnd ==
    ( /\ pc = "done"
      /\ lines = CubeFile
      /\ jacobian[1] > 0 /\ aspect_ratio[1] <= 20 /\ areas_volumes[1] = 1000000 )
    => /\ Len(valid_elements) = 1
       /\ Len(csv_file.rows) = 1
       /\ csv_file.rows[1][2] = "C3D8"
       /\ ~csv_file.rows[1][6].nan
       /\ csv_file.rows[1][7] = Dist(0, 1)
       /\ problematic_elements = <<>>

(***************************************************************************)
(* C9: parsing round trip.                                                 *)
(***************************************************************************)
\* C9 as claimed: for a file of *NODE and *ELEMENT blocks in which every
\* node id referenced by an element line is defined by some node line of
\* the file, the parsed mesh has as many nodes as the file has well-formed
\* node lines and as many elements as it has well-formed element lines.
C9_RoundTrip ==
    LET S == Scan(Len(lines)) IN
    (pc = "filter" /\ ~S.other /\ S.refs \subseteq S.ids) =>
        Len(nodes) = S.nNode /\ Len(elements) = S.nElem

\* C9 amended: after the loop the mesh has as many nodes as the file has
\* well-formed node lines, and as many elements as it has well-formed
\* element lines that lie in a block whose header gave a non-empty type and
\* that refer only to node ids defined by node lines before them.
C9_RoundTripInOrder ==
    LET S == Scan(Len(lines)) IN
    pc # "parse" => Len(nodes) = S.nNode /\ Len(elements) = S.nElemOk

C9_Witness ==
    LET S == Scan(Len(lines)) IN
    /\ pc = "filter"
    /\ S.nElemOk >= 1
    /\ S.nElem > S.nElemOk
    /\ S.refs \subseteq S.ids

(***************************************************************************)
(* C10: an element line that refers to an undefined node id.               *)
(***************************************************************************)
\* the step reads an element data line (a data line of an *ELEMENT block)
\* that refers to a node id no node line has defined
ReadsUndefinedRef ==
    /\ pc = "parse"
    /\ nread' = nread + 1
    /\ LET S == Scan(nread)
           P == Parsed[lines'[nread + 1]]
       IN  /\ S.blk = "element"
           /\ P.branch = "data"
           /\ \E n \in Range(P.elem_nodes) : n \notin S.ids

\* C10: such a step appends no element and changes neither the block state
\* nor the nodes and elements parsed so far, and raises nothing; and a run
\* fails only if no parsed element passes the shape filter.
C10_UndefinedRefSkipped ==
    /\ [][ReadsUndefinedRef =>
            /\ elements' = elements
            /\ element_types' = element_types
            /\ nodes' = nodes
            /\ node_ids' = node_ids
            /\ in_node' = in_node
            /\ in_element' = in_element
            /\ current_element_type' = current_element_type
            /\ pc' = "parse"
            /\ raised' = NoError]_vars
    /\ [](raised # NoError => Passing = <<>>)

\* a completed run whose file has, in an *ELEMENT block, a data line that
\* refers to a node id the file never defines
C10_Witness ==
    /\ pc = "done"
    /\ \E k \in 1..Len(lines) :
          /\ Scan(k - 1).blk = "element"
          /\ Scan(k - 1).typed
          /\ Parsed[lines[k]].branch = "data"
          /\ \E n \in Range(Parsed[lines[k]].elem_nodes) : n \notin Scan(Len(lines)).ids

(***************************************************************************)
(* C11: a run that aborts with a fatal error has written neither the VTU   *)
(* file nor the CSV file: while the run can still fail nothing is written, *)
(* and once an output file is written the run no longer fails.             *)
(***************************************************************************)
C11_NoOutputOnAbort ==
    /\ [](pc \in {"parse", "filter", "error"} =>
             vtu_file = NotWritten /\ csv_file = NotWritten)
    /\ [][(vtu_file # NotWritten \/ csv_file # NotWritten) => pc' # "error"]_vars

\* a run that parsed nodes and elements and aborted at the last fatal check
C11_Witness ==
    /\ pc = "error"
    /\ raised = "No valid elements converted to VTK types"
    /\ elements # <<>>

(***************************************************************************)
(* C12: the run aborts exactly when the parsed mesh has no node or no      *)
(* element (first message) or no parsed element passes the shape filter    *)
(* (second message); a run that gets past both checks has nodes and at     *)
(* least one element that passes the filter, whatever defective lines the  *)
(* file has.                                                               *)
(***************************************************************************)
AfterFilter == {"oracle", "custom", "flag", "save_vtu", "save_csv", "done"}

C12_DataErrorIffEmpty ==
    /\ pc = "error" =>
          \/ /\ raised = "No valid nodes or elements found in .inp file"
             /\ nread = Len(lines)
             /\ (nodes = <<>> \/ elements = <<>>)
          \/ /\ raised = "No valid elements converted to VTK types"
             /\ nodes # <<>> /\ elements # <<>>
             /\ Passing = <<>>
    /\ pc = "filter" => nodes # <<>> /\ elements # <<>>
    /\ pc \in AfterFilter => nodes # <<>> /\ elements # <<>> /\ Passing # <<>>

\* a data line of the file that is defective where it stands: a malformed
\* node line, or an element line with an unresolved node reference
DefectiveLine(k) ==
    LET s == Scan(k - 1)
        P == Parsed[lines[k]]
    IN  /\ P.branch = "data"
        /\ \/ s.blk = "node" /\ ~P.node_ok
           \/ s.blk = "element" /\ s.typed /\ ~(Range(P.elem_nodes) \subseteq s.ids)

\* a completed run whose file has an element of an unsupported type and a
\* defective data line
C12_Witness ==
    /\ pc = "done"
    /\ \E k \in 1..Len(element_types) : element_types[k] \notin {"C3D8", "S8R"}
    /\ \E k \in 1..Len(lines) : DefectiveLine(k)

(***************************************************************************)
(* C13: order is preserved.  The CSV rows (and the VTU cells) are the      *)
(* included elements in the order of their data lines in the input; the    *)
(* problem entries are a subsequence of the rows; every entry lists its    *)
(* violations in rule order 1 to 4.                                        *)
(***************************************************************************)
\* the type the last *ELEMENT header among the first k lines gave
RECURSIVE TypeAt(_)
TypeAt(k) ==
    IF k = 0 THEN None
    ELSE LET P == Parsed[lines[k]]
         IN  CASE P.branch = "element_header" -> P.type.val
               [] P.branch = "keyword" -> None
               [] OTHER -> TypeAt(k - 1)

\* (id, type) of the element lines among the first k lines of the file that
\* are included in the analysis, in file order
RECURSIVE IncludedUpTo(_)
IncludedUpTo(k) ==
    IF k = 0 THEN <<>>
    ELSE LET s == Scan(k - 1)
             P == Parsed[lines[k]]
             t == TypeAt(k - 1)
         IN  IncludedUpTo(k - 1) \o
             (IF /\ P.branch = "data"
                 /\ s.blk = "element" /\ s.typed
                 /\ P.elem_ok /\ P.elem_nodes # <<>>
                 /\ Range(P.elem_nodes) \subseteq s.ids
                 /\ PassesShapeFilter(t, P.elem_nodes)
              THEN << <<P.elem_id, t>> >> ELSE <<>>)

\* a is b with some entries left out
RECURSIVE IsSubseq(_, _)
IsSubseq(a, b) ==
    IF a = <<>> THEN TRUE
    ELSE IF b = <<>> THEN FALSE
    ELSE IF Head(a) = Head(b) THEN IsSubseq(Tail(a), Tail(b))
    ELSE IsSubseq(a, Tail(b))

RuleOrder ==
    << "High aspect ratio", "Near-zero area/volume", "Nonpositive Jacobian",
       "Nonpositive 3D Jacobian" >>

IssueTexts(entry) == [k \in 1..Len(entry[3]) |-> entry[3][k][1]]

C13_OrderPreserved ==
    pc = "done" =>
        /\ IdAndType(csv_file.rows) = IncludedUpTo(Len(lines))
        /\ vtu_file.cell_data.Element_ID =
              [j \in 1..Len(csv_file.rows) |-> csv_file.rows[j][1]]
        /\ IsSubseq(IdAndType(problematic_elements), IdAndType(csv_file.rows))
        /\ \A j \in 1..Len(problematic_elements) :
              /\ problematic_elements[j][3] # <<>>
              /\ IsSubseq(IssueTexts(problematic_elements[j]), RuleOrder)

\* two records whose ids are not in increasing order, both flagged, one
\* with more than one violation
C13_Witness ==
    /\ pc = "done"
    /\ Len(csv_file.rows) = 2
    /\ csv_file.rows[1][1] > csv_file.rows[2][1]
    /\ Len(problematic_elements) = 2
    /\ Len(problematic_elements[1][3]) >= 2

(***************************************************************************)
(* C15: reading a line that is empty or whitespace-only, or that begins    *)
(* with the comment marker, changes nothing of the parser state, in every  *)
(* block state.                                                            *)
(***************************************************************************)
IsBlankOrComment(raw) ==
    \/ \A k \in 1..Len(raw) : IsSpace(Char(raw, k))
    \/ Len(raw) >= 2 /\ SubSeq(raw, 1, 2) = "**"

ReadsBlankOrComment ==
    /\ pc = "parse"
    /\ nread' = nread + 1
    /\ IsBlankOrComment(lines'[nread + 1])

C15_SkippedLineKeepsState ==
    [][ReadsBlankOrComment =>
          /\ in_node' = in_node
          /\ in_element' = in_element
          /\ current_element_type' = current_element_type
          /\ nodes' = nodes
          /\ node_ids' = node_ids
          /\ elements' = elements
          /\ element_types' = element_types
          /\ pc' = "parse"]_vars

\* a comment or blank line was just read in reading-elements state with a
\* type set and nodes stored, after another one read in reading-nodes state
C15_Witness ==
    /\ pc = "parse"
    /\ nread >= 1
    /\ IsBlankOrComment(lines[nread])
    /\ in_element
    /\ current_element_type = "S8R"
    /\ nodes # <<>>
    /\ \E j \in 1..(nread - 1) :
          IsBlankOrComment(lines[j]) /\ Scan(j - 1).blk = "node"

(***************************************************************************)
(* C16: in reading-nodes state a data line is all-or-nothing.  A line with *)
(* fewer than 4 fields, or whose id or one of whose coordinates does not   *)
(* parse, changes neither the node list nor the id-to-index mapping; any   *)
(* other appends exactly one node, maps its id to the new last index and   *)
(* leaves the other ids as they were.  The mapping never points outside    *)
(* 0..N-1.                                                                 *)
(***************************************************************************)
ReadsNodeLine ==
    /\ pc = "parse"
    /\ nread' = nread + 1
    /\ in_node
    /\ Parsed[lines'[nread + 1]].branch = "data"

\* the line has at least 4 comma-separated fields, the first an integer and
\* the next three numbers
WellFormedNodeLine(raw) ==
    LET parts == split(strip(raw), ",")
    IN  /\ Len(parts) >= 4
        /\ IsIntLiteral(strip(parts[1]))
        /\ \A k \in 2..4 : IsFloatLiteral(strip(parts[k]))

C16_NodeLineAllOrNothing ==
    /\ [][ReadsNodeLine =>
            LET raw == lines'[nread + 1]
                id == Parsed[raw].node_id
            IN  IF WellFormedNodeLine(raw)
                THEN /\ Len(nodes') = Len(nodes) + 1
                     /\ SubSeq(nodes', 1, Len(nodes)) = nodes
                     /\ HasKey(node_ids', id)
                     /\ Lookup(node_ids', id) = Len(nodes') - 1
                     /\ \A k \in 1..Len(node_ids) :
                           node_ids[k][1] # id =>
                              /\ HasKey(node_ids', node_ids[k][1])
                              /\ Lookup(node_ids', node_ids[k][1]) = node_ids[k][2]
                     /\ Len(node_ids') <= Len(node_ids) + 1
                ELSE nodes' = nodes /\ node_ids' = node_ids]_vars
    /\ [](\A k \in 1..Len(node_ids) : node_ids[k][2] \in 0..(Len(nodes) - 1))

\* a ninth node was appended after a malformed node line was skipped
C16_Witness ==
    /\ pc = "parse"
    /\ in_node
    /\ Len(nodes) = 9
    /\ HasKey(node_ids, 9)
    /\ \E k \in 1..nread :
          /\ Scan(k - 1).blk = "node"
          /\ Parsed[lines[k]].branch = "data"
          /\ ~WellFormedNodeLine(lines[k])

(***************************************************************************)
(* C17: compute_warping is called with exactly 4 points for every          *)
(* included element.                                                       *)
(***************************************************************************)
\* C17 as claimed: the argument line 166 passes for cell c has 4 points
C17_WarpingOnFourPoints ==
    \A c \in 1..Len(warping) : Len(CellPoints(c)) = 4

(***************************************************************************)
(* C19: every stored element has a non-empty list of node indices, each    *)
(* within 0..N-1 for the current number N of nodes; an element is resolved *)
(* against the nodes parsed before its line, and an element line that      *)
(* refers to a node id not yet defined is skipped.                         *)
(***************************************************************************)
C19_ElementsResolved ==
    /\ [](/\ Len(element_types) = Len(elements)
          /\ \A k \in 1..Len(elements) :
                /\ elements[k][2] # <<>>
                /\ \A j \in 1..Len(elements[k][2]) :
                      elements[k][2][j] \in 0..(Len(nodes) - 1))
    /\ [][elements' # elements =>
            /\ Len(elements') = Len(elements) + 1
            /\ SubSeq(elements', 1, Len(elements)) = elements
            /\ nodes' = nodes
            /\ LET P == Parsed[lines'[nread + 1]]
                   e == elements'[Len(elements')]
               IN  /\ Range(P.elem_nodes) \subseteq Scan(nread).ids
                   /\ Len(e[2]) = Len(P.elem_nodes)
                   /\ \A j \in 1..Len(e[2]) :
                         /\ e[2][j] \in 0..(Len(nodes) - 1)
                         /\ e[2][j] = Lookup(node_ids, P.elem_nodes[j])]_vars
    /\ [][ReadsUndefinedRef => elements' = elements]_vars

\* the file's first element line precedes the definition of its nodes and
\* was skipped; the same line, repeated after the node block, was stored
C19_Witness ==
    /\ pc = "parse"
    /\ IsPrefix(ElementsFirst, lines)
    /\ nread = Len(lines)
    /\ Len(elements) = 1
    /\ Scan(nread).nElem = 2
    /\ lines[nread] = lines[2]

(***************************************************************************)
(* Direct calls of the geometric helpers on bounded point lists            *)
(***************************************************************************)
UnitSquare == << <<0, 0, 0>>, <<1, 0, 0>>, <<1, 1, 0>>, <<0, 1, 0>> >>

UnitCube ==
    << <<0, 0, 0>>, <<1, 0, 0>>, <<1, 1, 0>>, <<0, 1, 0>>,
       <<0, 0, 1>>, <<1, 0, 1>>, <<1, 1, 1>>, <<0, 1, 1>> >>

\* every list of 4 corners of the unit square (all orderings, and the
\* lists with repeated corners)
QuadLists == [1..4 -> Range(UnitSquare)]

\* the unit cube with one corner moved to any corner of the cube
HexLists ==
    {[UnitCube EXCEPT ![k] = c] : k \in 1..8, c \in Range(UnitCube)}

PointLists == QuadLists \cup HexLists

GeomInit ==
    /\ lines = <<>>
    /\ Fresh
    /\ arg_points \in PointLists
    /\ fn = NoCall
    /\ ret = NoCall
    /\ MatFresh(<<>>)
    /\ ConvFresh
    /\ CliIdle

CallWarping ==
    /\ fn = NoCall
    /\ fn' = "compute_warping"
    /\ ret' = compute_warping(arg_points)
    /\ UNCHANGED <<parseVars, filterVars, oracleVars, customVars, outVars,
                   pc, raised, arg_points, toolVars>>

CallIsButterfly ==
    /\ fn = NoCall
    /\ fn' = "is_butterfly"
    /\ ret' = is_butterfly(arg_points)
    /\ UNCHANGED <<parseVars, filterVars, oracleVars, customVars, outVars,
                   pc, raised, arg_points, toolVars>>

CallJacobian3D ==
    /\ fn = NoCall
    /\ fn' = "compute_3d_jacobian"
    /\ ret' = compute_3d_jacobian(arg_points)
    /\ UNCHANGED <<parseVars, filterVars, oracleVars, customVars, outVars,
                   pc, raised, arg_points, toolVars>>

GeomNext == CallWarping \/ CallIsButterfly \/ CallJacobian3D

GeomSpec == GeomInit /\ [][GeomNext]_vars

(***************************************************************************)
(* C6: compute_3d_jacobian of the unit cube in standard order is strictly  *)
(* positive, i.e. each of the four centroid tetrahedra has a positive      *)
(* signed triple product.                                                  *)
(***************************************************************************)
C6_UnitCubeJacobianPositive ==
    (fn = "compute_3d_jacobian" /\ arg_points = UnitCube) =>
        /\ ~ret.nan
        /\ ret.v8 > 0
        /\ \A t \in 1..Len(TetIndices) : TetDet8(UnitCube, TetIndices[t]) > 0

(***************************************************************************)
(* C7: is_butterfly is false for the unit square in boundary order and     *)
(* true for every self-intersecting ordering of its four corners.          *)
(***************************************************************************)
\* two corners of the unit square joined by a side
Adjacent(a, b) == normsq(vsub(a, b)) = 1

\* an ordering of the four corners that walks along the sides
IsBoundaryOrder(q) ==
    /\ Len(q) = 4
    /\ Range(q) = Range(UnitSquare)
    /\ \A k \in 1..4 : Adjacent(q[k], q[(k % 4) + 1])

\* an ordering of the four corners in which two opposite edges cross
IsBowtie(q) ==
    /\ Len(q) = 4
    /\ Range(q) = Range(UnitSquare)
    /\ ~IsBoundaryOrder(q)

C7_ButterflyDetectsBowtie ==
    fn = "is_butterfly" =>
        /\ arg_points = UnitSquare => ret = FALSE
        /\ IsBowtie(arg_points) => ret = TRUE

(***************************************************************************)
(* replace_materials, src/src/ccx_material_editor/material_processor.py    *)
(***************************************************************************)
\* the lines an input file of replace_materials is made of
MatLineSet ==
    { "*MATERIAL, NAME=A",
      "*DENSITY",
      "*ELASTIC",
      "*elastic, TYPE=ISO",
      " 1000, 0.2",                \* a data line, indented
      "*STEP" }

MatFiles == UNION {[1..n -> MatLineSet] : n \in 0..MaxMatLines}

MatInit ==
    /\ lines = <<>>
    /\ Fresh
    /\ GeomIdle
    /\ \E ls \in MatFiles : MatFresh(ls)
    /\ ConvFresh
    /\ CliIdle

\* lines 13-14: the next line of the loop, stripped
MatLine == strip(mat_lines[mat_i + 1])

MatLoop ==
    /\ mat_i < Len(mat_lines)
    /\ mat_i' = mat_i + 1
    /\ UNCHANGED <<mat_lines, mat_out>>
    /\ UNCHANGED <<parseVars, filterVars, oracleVars, customVars, outVars,
                   pc, raised, geomVars, convVars, cliVars>>

\* line 19
MaterialNameOf(line) ==
    IF contains(line, "NAME=") THEN strip(split(line, "NAME=")[2]) ELSE "Unnamed"

\* lines 17-21
MaterialLine ==
    /\ MatLoop
    /\ startswith(upper(MatLine), "*MATERIAL")
    /\ in_material' = TRUE
    /\ material_name' = MaterialNameOf(MatLine)
    /\ output_lines' = Append(output_lines, MatLine)
    /\ UNCHANGED in_elastic

\* lines 24-28
ElasticLine ==
    /\ MatLoop
    /\ ~startswith(upper(MatLine), "*MATERIAL")
    /\ in_material /\ startswith(upper(MatLine), "*ELASTIC")
    /\ in_elastic' = TRUE
    /\ output_lines' = output_lines \o << "*ELASTIC", "210000, 0.3" >>
    /\ UNCHANGED <<in_material, material_name>>

\* lines 31-32
SkipElasticData ==
    /\ MatLoop
    /\ ~startswith(upper(MatLine), "*MATERIAL")
    /\ ~(in_material /\ startswith(upper(MatLine), "*ELASTIC"))
    /\ in_elastic /\ ~startswith(upper(MatLine), "*")
    /\ UNCHANGED <<output_lines, in_material, in_elastic, material_name>>

\* lines 35-41, for a keyword line
CopyKeyword ==
    /\ MatLoop
    /\ ~startswith(upper(MatLine), "*MATERIAL")
    /\ ~(in_material /\ startswith(upper(MatLine), "*ELASTIC"))
    /\ startswith(upper(MatLine), "*")
    /\ in_material' = FALSE
    /\ in_elastic' = FALSE
    /\ material_name' = None
    /\ output_lines' = Append(output_lines, MatLine)

\* lines 35-41, for a data line
CopyData ==
    /\ MatLoop
    /\ ~in_elastic /\ ~startswith(upper(MatLine), "*")
    /\ output_lines' = Append(output_lines, MatLine)
    /\ UNCHANGED <<in_material, in_elastic, material_name>>

\* lines 43-45
WriteOutput ==
    /\ mat_i = Len(mat_lines)
    /\ mat_out = NotWritten
    /\ mat_out' = [lines |-> output_lines]
    /\ UNCHANGED <<mat_lines, mat_i, output_lines, in_material, in_elastic,
                   material_name>>
    /\ UNCHANGED <<parseVars, filterVars, oracleVars, customVars, outVars,
                   pc, raised, geomVars, convVars, cliVars>>

MatNext ==
    \/ MaterialLine
    \/ ElasticLine
    \/ SkipElasticData
    \/ CopyKeyword
    \/ CopyData
    \/ WriteOutput

MatSpec == MatInit /\ [][MatNext]_vars

(***************************************************************************)
(* C14: replace_materials replaces all material elastic definitions.       *)
(***************************************************************************)
\* keyword lines that belong to a material definition
IsMaterialProperty(u) == startswith(u, "*DENSITY") \/ startswith(u, "*ELASTIC")

\* The output the claim describes for the file ls: every *ELASTIC keyword
\* line of a material (a *MATERIAL line precedes it, with only keyword
\* lines of that material and data lines between) becomes '*ELASTIC' and
\* '210000, 0.3' and its data lines are dropped; every other line is
\* copied (stripped, as the code writes it).  seen: inside a material;
\* elastic: inside a replaced elastic definition.
RECURSIVE MatExpected(_, _, _)
MatExpected(ls, seen, elastic) ==
    IF ls = <<>> THEN <<>>
    ELSE LET line == strip(Head(ls))
             u == upper(line)
         IN  IF startswith(u, "*MATERIAL")
             THEN <<line>> \o MatExpected(Tail(ls), TRUE, FALSE)
             ELSE IF seen /\ startswith(u, "*ELASTIC")
             THEN << "*ELASTIC", "210000, 0.3" >> \o MatExpected(Tail(ls), TRUE, TRUE)
             ELSE IF startswith(u, "*")
             THEN <<line>> \o MatExpected(Tail(ls), seen /\ IsMaterialProperty(u), FALSE)
             ELSE IF elastic
             THEN MatExpected(Tail(ls), seen, elastic)
             ELSE <<line>> \o MatExpected(Tail(ls), seen, elastic)

\* C14 as claimed: the file written is the input with every elastic
\* definition of a material replaced by the isotropic one
C14_AllElasticReplaced ==
    mat_out # NotWritten => mat_out.lines = MatExpected(mat_lines, FALSE, FALSE)

(***************************************************************************)
(* The parsing loop of convert_to_vtu, src/src/ccxdebug/vtu_converter.py   *)
(* lines 17-71, run on the file analyze_mesh_quality reads.                *)
(***************************************************************************)
ConvInit ==
    /\ lines \in ConvFiles
    /\ Fresh
    /\ GeomIdle
    /\ MatFresh(<<>>)
    /\ ConvFresh
    /\ CliIdle

\* `for line in lines`: raw is the next line of the file
ConvNextLine(raw) ==
    /\ conv_pc = "parse"
    /\ conv_nread < Len(lines)
    /\ raw = lines[conv_nread + 1]
    /\ conv_nread' = conv_nread + 1
    /\ UNCHANGED <<parseVars, filterVars, oracleVars, customVars, outVars,
                   pc, raised, geomVars, matVars, cliVars>>

\* lines 19-20
ConvSkipLine ==
    \E raw \in Candidates :
        /\ ConvNextLine(raw)
        /\ Parsed[raw].branch = "skip"
        /\ UNCHANGED <<conv_nodes, conv_node_ids, conv_elements,
                       conv_element_types, conv_in_node, conv_in_element,
                       conv_current_element_type, conv_pc, conv_raised>>

\* lines 22-25
ConvNodeHeader ==
    \E raw \in Candidates :
        /\ ConvNextLine(raw)
        /\ Parsed[raw].branch = "node_header"
        /\ conv_in_node' = TRUE
        /\ conv_in_element' = FALSE
        /\ UNCHANGED <<conv_nodes, conv_node_ids, conv_elements,
                       conv_element_types, conv_current_element_type,
                       conv_pc, conv_raised>>

\* lines 27-38
ConvElementHeader ==
    \E raw \in Candidates :
        /\ ConvNextLine(raw)
        /\ Parsed[raw].branch = "element_header"
        /\ conv_in_node' = FALSE
        /\ conv_in_element' = TRUE
        /\ IF Parsed[raw].type.ok
           THEN /\ conv_current_element_type' = Parsed[raw].type.val
                /\ UNCHANGED <<conv_pc, conv_raised>>
           ELSE /\ conv_raised' = "Invalid *ELEMENT format: TYPE= specifier malformed"
                /\ conv_pc' = "error"
                /\ UNCHANGED conv_current_element_type
        /\ UNCHANGED <<conv_nodes, conv_node_ids, conv_elements, conv_element_types>>

\* lines 40-44
ConvOtherKeyword ==
    \E raw \in Candidates :
        /\ ConvNextLine(raw)
        /\ Parsed[raw].branch = "keyword"
        /\ conv_in_node' = FALSE
        /\ conv_in_element' = FALSE
        /\ conv_current_element_type' = None
        /\ UNCHANGED <<conv_nodes, conv_node_ids, conv_elements,
                       conv_element_types, conv_pc, conv_raised>>

\* lines 46-55
ConvNodeData ==
    \E raw \in Candidates :
        /\ ConvNextLine(raw)
        /\ Parsed[raw].branch = "data"
        /\ conv_in_node
        /\ IF Parsed[raw].node_ok
           THEN /\ conv_nodes' = Append(conv_nodes, Parsed[raw].coords)
                /\ conv_node_ids' =
                      SetItem(conv_node_ids, Parsed[raw].node_id, Len(conv_nodes') - 1)
           ELSE UNCHANGED <<conv_nodes, conv_node_ids>>
        /\ UNCHANGED <<conv_elements, conv_element_types, conv_in_node,
                       conv_in_element, conv_current_element_type,
                       conv_pc, conv_raised>>

\* lines 61-66: what an element line with node ids ns appends to elements;
\* the first field of the line is not read
ConvNewElements(ns) ==
    IF ns # <<>> /\ \A k \in 1..Len(ns) : HasKey(conv_node_ids, ns[k])
    THEN << [k \in 1..Len(ns) |-> Lookup(conv_node_ids, ns[k])] >>
    ELSE <<>>

\* lines 57-68
ConvElementData ==
    \E raw \in Candidates :
        /\ ConvNextLine(raw)
        /\ Parsed[raw].branch = "data"
        /\ ~conv_in_node
        /\ conv_in_element /\ Truthy(conv_current_element_type)
        /\ LET new == ConvNewElements(Parsed[raw].elem_nodes)
           IN  /\ conv_elements' = conv_elements \o new
               /\ conv_element_types' =
                     conv_element_types \o
                        [k \in 1..Len(new) |-> conv_current_element_type]
        /\ UNCHANGED <<conv_nodes, conv_node_ids, conv_in_node, conv_in_element,
                       conv_current_element_type, conv_pc, conv_raised>>

\* lines 46 and 57 both false
ConvIgnoredData ==
    \E raw \in Candidates :
        /\ ConvNextLine(raw)
        /\ Parsed[raw].branch = "data"
        /\ ~conv_in_node
        /\ ~(conv_in_element /\ Truthy(conv_current_element_type))
        /\ UNCHANGED <<conv_nodes, conv_node_ids, conv_elements,
                       conv_element_types, conv_in_node, conv_in_element,
                       conv_current_element_type, conv_pc, conv_raised>>

\* lines 70-71, reached when the loop has consumed the whole file (the file
\* is complete once analyze_mesh_quality has left its own loop)
ConvEndOfFile ==
    /\ conv_pc = "parse"
    /\ pc # "parse"
    /\ conv_nread = Len(lines)
    /\ IF conv_nodes = <<>> \/ conv_elements = <<>>
       THEN /\ conv_raised' = "No valid nodes or elements found in .inp file"
            /\ conv_pc' = "error"
       ELSE /\ conv_pc' = "convert"
            /\ UNCHANGED conv_raised
    /\ UNCHANGED <<conv_nread, conv_nodes, conv_node_ids, conv_elements,
                   conv_element_types, conv_in_node, conv_in_element,
                   conv_current_element_type>>
    /\ UNCHANGED <<parseVars, filterVars, oracleVars, customVars, outVars,
                   pc, raised, geomVars, matVars, cliVars>>

ConvNext ==
    \/ SkipLine
    \/ NodeHeader
    \/ ElementHeader
    \/ OtherKeyword
    \/ NodeData
    \/ ElementData
    \/ IgnoredData
    \/ EndOfFile
    \/ ConvSkipLine
    \/ ConvNodeHeader
    \/ ConvElementHeader
    \/ ConvOtherKeyword
    \/ ConvNodeData
    \/ ConvElementData
    \/ ConvIgnoredData
    \/ ConvEndOfFile

ConvSpec == ConvInit /\ [][ConvNext]_vars

(***************************************************************************)
(* C18: convert_to_vtu and analyze_mesh_quality parse with the same        *)
(* grammar.                                                                *)
(***************************************************************************)
\* C18 as claimed: whenever the two loops have read the same lines of the
\* same file, they hold the same nodes and the same sequence of (element
\* type, resolved node indices), so each line was accepted as an element by
\* both or by neither
C18_SameGrammar ==
    conv_nread = nread =>
        /\ conv_nodes = nodes
        /\ conv_elements = [k \in 1..Len(elements) |-> elements[k][2]]
        /\ conv_element_types = element_types

(***************************************************************************)
(* main, src/src/ccxdebug/cli.py                                           *)
(***************************************************************************)
Commands == {"iso", "vtu", "quality"}

NamePieces == {"mesh", ".inp", ".INP", ".", "_iso", ".txt"}

RECURSIVE JoinPieces(_)
JoinPieces(q) == IF q = <<>> THEN "" ELSE Head(q) \o JoinPieces(Tail(q))

\* the input_file arguments: one to MaxPieces pieces, joined
FileNames ==
    {JoinPieces(q) : q \in UNION {[1..n -> NamePieces] : n \in 1..MaxPieces}}

\* line 22: the parsed command line
CliInit ==
    /\ lines = <<>>
    /\ Fresh
    /\ GeomIdle
    /\ MatFresh(<<>>)
    /\ ConvFresh
    /\ command \in Commands
    /\ input_file \in FileNames
    /\ called = [fn |-> NoCall]

\* lines 24-26
CmdIso ==
    /\ called.fn = NoCall
    /\ command = "iso"
    /\ LET output_file == replace(input_file, ".inp", "_iso.inp")
       IN  called' = [fn |-> "replace_materials", input |-> input_file,
                      output |-> output_file]
    /\ UNCHANGED <<parseVars, filterVars, oracleVars, customVars, outVars,
                   pc, raised, geomVars, matVars, convVars, command, input_file>>

\* lines 28-30
CmdVtu ==
    /\ called.fn = NoCall
    /\ command = "vtu"
    /\ LET output_file == replace(input_file, ".inp", ".vtu")
       IN  called' = [fn |-> "convert_to_vtu", input |-> input_file,
                      output |-> output_file]
    /\ UNCHANGED <<parseVars, filterVars, oracleVars, customVars, outVars,
                   pc, raised, geomVars, matVars, convVars, command, input_file>>

\* lines 32-35
CmdQuality ==
    /\ called.fn = NoCall
    /\ command = "quality"
    /\ LET output_csv == replace(input_file, ".inp", "_quality.csv")
           output_vtu == replace(input_file, ".inp", "_quality.vtu")
       IN  called' = [fn |-> "analyze_mesh_quality", input |-> input_file,
                      output_csv |-> output_csv, output_vtu |-> output_vtu]
    /\ UNCHANGED <<parseVars, filterVars, oracleVars, customVars, outVars,
                   pc, raised, geomVars, matVars, convVars, command, input_file>>

CliNext == CmdIso \/ CmdVtu \/ CmdQuality

CliSpec == CliInit /\ [][CliNext]_vars

(***************************************************************************)
(* C20: no command overwrites its input file, and the quality command      *)
(* does not write its two outputs to the same path.                        *)
(***************************************************************************)
\* C20 as claimed: every output path passed to the function called differs
\* from input_file, and the CSV path differs from the VTU path
C20_OutputsDistinct ==
    /\ called.fn \in {"replace_materials", "convert_to_vtu"} =>
          called.output # input_file
    /\ called.fn = "analyze_mesh_quality" =>
          /\ called.output_csv # input_file
          /\ called.output_vtu # input_file
          /\ called.output_csv # called.output_vtu

====
